---- MODULE Spec2Model ----
(***************************************************************************)
(* A model of the resource monitor (monitor.py, dual-format program, and   *)
(* its legacy single-format copy).  The state is the configuration read    *)
(* from the environment, the log directory (every sink's active file and   *)
(* its rotated generations), the handlers attached to each logger, the     *)
(* position of main() and the snapshots and outputs of the running tick.   *)
(*                                                                         *)
(* File sizes are counted in bytes against the program's 10 MiB rotation   *)
(* threshold; formatted lines are drawn in MiB sizes so that the threshold *)
(* is crossed within a few writes.                                         *)
(***************************************************************************)
EXTENDS Integers, Sequences, FiniteSets, TLC

VARIABLES
    LOG_FORMAT,      \* os.getenv('LOG_FORMAT', 'both').lower()
    CONSOLE_OUTPUT,  \* os.getenv('CONSOLE_OUTPUT', 'true').lower() == 'true'
    PROCESS_COUNT,   \* int(os.getenv('PROCESS_COUNT', '5'))
    pc,              \* position of main()
    ticks,           \* iterations of the while loop started so far
    files,           \* the log directory: path -> generation -> file
    handlers,        \* logger name -> the handlers added to it, in order
    snap,            \* the snapshots sampled in the running tick
    exc,             \* the exception raised in the running tick, or "none"
    tickOut,         \* the logger calls and prints of the running tick
    target,          \* the logger a sink run logs to
    wr,              \* the number of records a sink run has logged
    arg,             \* the input of a run of one function
    res              \* its result

vars == <<LOG_FORMAT, CONSOLE_OUTPUT, PROCESS_COUNT, pc, ticks, files,
          handlers, snap, exc, tickOut, target, wr, arg, res>>

----------------------------------------------------------------------------
(* Bounds of the model *)

MaxTicks == 2
MaxWrites == 8

----------------------------------------------------------------------------
(* Configuration and constants of setup_logging *)

MiB == 1024 * 1024

maxBytes == 10 * MiB

backupCount == 5

\* Generation 0 is the active file, generation i the file with suffix .i;
\* one suffix more than the handler is configured to keep is observed
Gens == 0 .. backupCount + 1

Names == <<"main", "cpu", "memory", "disk", "network">>

NameSet == {Names[i] : i \in 1 .. Len(Names)}

Categories == NameSet \ {"main"}

Exts == {"log", "csv"}

Paths == NameSet \X Exts

log_fields ==
    [main    |-> <<"timestamp", "level", "message">>,
     cpu     |-> <<"timestamp", "level", "cpu_percent", "cpu_count",
                   "per_cpu", "top_processes">>,
     memory  |-> <<"timestamp", "level", "total_gb", "used_gb",
                   "available_gb", "percent", "top_processes">>,
     disk    |-> <<"timestamp", "level", "read_mb", "write_mb",
                   "read_count", "write_count", "per_disk_io">>,
     network |-> <<"timestamp", "level", "sent_mb", "recv_mb",
                   "packets_sent", "packets_recv", "ping_status",
                   "ping_latency", "ping_host">>]

should_log == LOG_FORMAT \in {"log", "both"}

should_csv == LOG_FORMAT \in {"csv", "both"}

\* ','.join(fields)
RECURSIVE Join(_)
Join(fields) ==
    IF Len(fields) = 0 THEN ""
    ELSE IF Len(fields) = 1 THEN fields[1]
    ELSE fields[1] \o "," \o Join(Tail(fields))

\* header = ','.join(log_fields[name]) + '\n'
header(name) == Join(log_fields[name]) \o "\n"

----------------------------------------------------------------------------
(* Files and lines.  A line is what one write appends: its kind, the       *)
(* logger it was logged to, the tick and the position in the tick of the   *)
(* logger call that produced it, and its length in bytes with the newline. *)
(* A file carries the number of rollovers of its sink that preceded its    *)
(* creation (seq), which tells the generations apart.                      *)

NoFile == [exists |-> FALSE, lines |-> <<>>, seq |-> 0]

NewFile(seq) == [exists |-> TRUE, lines |-> <<>>, seq |-> seq]

Line(kind, logger, tick, k, len) ==
    [kind |-> kind, logger |-> logger, tick |-> tick, k |-> k, len |-> len]

HeaderLine(name) == Line("header", name, 0, 0, Len(header(name)))

RECURSIVE SumLen(_)
SumLen(lines) ==
    IF Len(lines) = 0 THEN 0 ELSE Head(lines).len + SumLen(Tail(lines))

\* os.path.getsize / stream.seek(0, 2); stream.tell()
getsize(file) == SumLen(file.lines)

----------------------------------------------------------------------------
(* logging.handlers.RotatingFileHandler, as setup_logging configures it    *)
(* (maxBytes=10*1024*1024, backupCount=5, mode 'a', delay=False).  f is    *)
(* one sink's files: generation 0 is the active file, generation i the     *)
(* backup with suffix .i.                                                  *)

\* FileHandler.__init__: the stream is opened in mode 'a' at construction
OpenAppend(f) == IF f[0].exists THEN f ELSE [f EXCEPT ![0] = NewFile(0)]

\* doRollover: for i in range(backupCount - 1, 0, -1): rename .i to .(i+1)
RECURSIVE RenameUp(_, _)
RenameUp(f, i) ==
    IF i < 1 THEN f
    ELSE RenameUp(IF f[i].exists
                  THEN [f EXCEPT ![i + 1] = f[i], ![i] = NoFile]
                  ELSE f,
                  i - 1)

\* doRollover with the loop started one suffix too high, so that the oldest
\* backup is renamed instead of being overwritten
doRollover_KeepOldest(f) ==
    LET r == RenameUp(f, backupCount)
    IN  [r EXCEPT ![1] = r[0], ![0] = NewFile(f[0].seq + 1)]

doRollover(f) ==
    LET g == IF backupCount > 0
             THEN LET r == RenameUp(f, backupCount - 1)
                  IN  IF r[0].exists
                      THEN [r EXCEPT ![1] = r[0], ![0] = NoFile]
                      ELSE [r EXCEPT ![1] = NoFile]
             ELSE f
    IN  [g EXCEPT ![0] = NewFile(f[0].seq + 1)]

\* shouldRollover with a strict comparison
shouldRollover_Strict(f, len) == maxBytes > 0 /\ getsize(f[0]) + len > maxBytes

\* shouldRollover: stream.tell() + len(msg) >= maxBytes, msg with its newline
shouldRollover(f, len) == maxBytes > 0 /\ getsize(f[0]) + len >= maxBytes

\* BaseRotatingHandler.emit: roll over if needed, then append the line
emit(f, line) ==
    LET g == IF shouldRollover(f, line.len) THEN doRollover(f) ELSE f
    IN  [g EXCEPT ![0].lines = Append(@, line)]

\* A header written at every start
NeedsHeader_Always(file) == TRUE

\* "Write header if file is new or empty"
NeedsHeader(file) == ~file.exists \/ getsize(file) = 0

\* with open(csv_filename, 'w') as f: f.write(header)
WriteHeader(f, name) ==
    [f EXCEPT ![0] = [exists |-> TRUE, lines |-> <<HeaderLine(name)>>,
                      seq |-> f[0].seq]]

\* setup_logging without the test that keeps the main logger off CSV
HandlersOf_MainCsv(name) ==
    (IF should_log THEN <<"log">> ELSE <<>>)
    \o (IF should_csv THEN <<"csv">> ELSE <<>>)
    \o (IF name = "main" /\ CONSOLE_OUTPUT THEN <<"console">> ELSE <<>>)

\* The handlers setup_logging adds to logger `name`, in the order added
HandlersOf(name) ==
    (IF should_log THEN <<"log">> ELSE <<>>)
    \o (IF should_csv /\ name # "main" THEN <<"csv">> ELSE <<>>)
    \o (IF name = "main" /\ CONSOLE_OUTPUT THEN <<"console">> ELSE <<>>)

\* One iteration of "for name in log_fields" on the log directory
SetupFiles(fs, name) ==
    LET a == IF should_log
             THEN [fs EXCEPT ![<<name, "log">>] = OpenAppend(@)]
             ELSE fs
        b == IF should_csv /\ name # "main"
             THEN LET c == [a EXCEPT ![<<name, "csv">>] = OpenAppend(@)]
                  IN  IF NeedsHeader(c[<<name, "csv">>][0])
                      THEN [c EXCEPT ![<<name, "csv">>] = WriteHeader(@, name)]
                      ELSE c
             ELSE a
    IN  b

RECURSIVE SetupAll(_, _)
SetupAll(fs, names) ==
    IF Len(names) = 0 THEN fs
    ELSE SetupAll(SetupFiles(fs, Head(names)), Tail(names))

\* Logger.callHandlers: every handler of the logger emits the record
RECURSIVE callHandlers(_, _, _, _)
callHandlers(fs, hs, name, line) ==
    IF Len(hs) = 0 THEN fs
    ELSE callHandlers(IF Head(hs) = "console" THEN fs
                      ELSE [fs EXCEPT ![<<name, Head(hs)>>] = emit(@, line)],
                      Tail(hs), name, line)

----------------------------------------------------------------------------
(* Snapshot providers.  A process of the process table is                  *)
(* [pid, cpu, rss]: cpu is p.info['cpu_percent'] and rss is                *)
(* p.info['memory_info'].rss; psutil.process_iter fills an attribute it    *)
(* could not read (AccessDenied, zombie) with None.                        *)

None == 0 - 1

Min(a, b) == IF a <= b THEN a ELSE b

\* s[:n] for n >= 0
Slice(s, n) == SubSeq(s, 1, Min(n, Len(s)))

\* A sort that puts an element before the elements of equal key
RECURSIVE InsertStable_TiesFirst(_, _)
InsertStable_TiesFirst(s, x) ==
    IF Len(s) = 0 THEN <<x>>
    ELSE IF Head(s).key <= x.key THEN <<x>> \o s
    ELSE <<Head(s)>> \o InsertStable_TiesFirst(Tail(s), x)

\* sorted(..., reverse=True) is stable: an element goes before the first
\* element with a strictly smaller key
RECURSIVE InsertStable(_, _)
InsertStable(s, x) ==
    IF Len(s) = 0 THEN <<x>>
    ELSE IF Head(s).key < x.key THEN <<x>> \o s
    ELSE <<Head(s)>> \o InsertStable(Tail(s), x)

RECURSIVE sorted_reverse(_)
sorted_reverse(s) ==
    IF Len(s) = 0 THEN <<>>
    ELSE InsertStable(sorted_reverse(SubSeq(s, 1, Len(s) - 1)), s[Len(s)])

\* key=lambda p: p.info.get('cpu_percent', 0): the key exists, so an
\* unreadable cpu_percent gives the key None
cpu_key(p) == p.cpu

\* '<' between None and a number (or None) raises TypeError; a sort of two
\* or more elements compares every element at least once
SortRaises(keyed) ==
    Len(keyed) >= 2 /\ \E i \in 1 .. Len(keyed) : keyed[i].key = None

get_cpu_stats(procs, N) ==
    LET keyed == [i \in 1 .. Len(procs) |->
                     [key |-> cpu_key(procs[i]), p |-> procs[i]]]
    IN  IF SortRaises(keyed)
        THEN [raised |-> "TypeError", top_processes |-> <<>>]
        ELSE LET top == Slice(sorted_reverse(keyed), N)
             IN  [raised |-> "none",
                  top_processes |->
                      [i \in 1 .. Len(top) |->
                          [pid |-> top[i].p.pid, value |-> top[i].p.cpu]]]

\* key=lambda p: p.info['memory_info'].rss if p.info.get('memory_info') else 0
mem_key(p) == IF p.rss # None THEN p.rss ELSE 0

\* for proc in sorted(...)[:PROCESS_COUNT]: if mem_info: top_procs.append(...)
RECURSIVE KeepReadable(_)
KeepReadable(top) ==
    IF Len(top) = 0 THEN <<>>
    ELSE (IF Head(top).p.rss # None
          THEN <<[pid |-> Head(top).p.pid, value |-> Head(top).p.rss]>>
          ELSE <<>>)
         \o KeepReadable(Tail(top))

get_memory_stats(procs, N) ==
    LET keyed == [i \in 1 .. Len(procs) |->
                     [key |-> mem_key(procs[i]), p |-> procs[i]]]
    IN  [raised |-> "none",
         top_processes |-> KeepReadable(Slice(sorted_reverse(keyed), N))]

----------------------------------------------------------------------------
(* ping_network.  The probe's outcome is the exception subprocess.run      *)
(* raised ("none" when it returned), the exit code and the lines of        *)
(* stdout; a line is a sequence of symbols: the text "time=", a blank, or  *)
(* a run of other characters.                                              *)

Contains(line, sym) == \E i \in 1 .. Len(line) : line[i] = sym

RECURSIVE DropThrough(_, _)
DropThrough(line, sym) ==
    IF Len(line) = 0 THEN <<>>
    ELSE IF Head(line) = sym THEN Tail(line)
    ELSE DropThrough(Tail(line), sym)

RECURSIVE TakeUntil(_, _)
TakeUntil(line, sym) ==
    IF Len(line) = 0 \/ Head(line) = sym THEN <<>>
    ELSE <<Head(line)>> \o TakeUntil(Tail(line), sym)

RECURSIVE LStrip(_)
LStrip(line) ==
    IF Len(line) > 0 /\ Head(line) = " " THEN LStrip(Tail(line)) ELSE line

\* line.split('time=')[1]
AfterTime(line) == TakeUntil(DropThrough(line, "time="), "time=")

\* text.split(): the first whitespace-separated token, <<>> when there is none
FirstToken(text) == TakeUntil(LStrip(text), " ")

RECURSIVE FirstTimeLine(_)
FirstTimeLine(lines) ==
    IF Len(lines) = 0 THEN <<>>
    ELSE IF Contains(Head(lines), "time=") THEN <<Head(lines)>>
    ELSE FirstTimeLine(Tail(lines))

PingDict(status, latency, error) ==
    [status |-> status,
     keys |-> {"status", "host"}
              \cup (IF status = "success" THEN {"latency_ms"} ELSE {})
              \cup (IF status = "error" THEN {"error"} ELSE {}),
     latency_ms |-> latency,
     error |-> error]

\* A probe whose outcome is never turned into a status
ping_network_NoStatus(probe) == PingDict("unset", <<>>, probe.raises)

ping_network(probe) ==
    IF probe.raises # "none"
    THEN PingDict("error", <<>>, probe.raises)
    ELSE IF probe.returncode = 0 /\ Len(FirstTimeLine(probe.stdout)) > 0
    THEN LET time_ms == FirstToken(AfterTime(FirstTimeLine(probe.stdout)[1]))
         IN  IF Len(time_ms) = 0
             THEN PingDict("error", <<>>, "IndexError")
             ELSE PingDict("success", time_ms, "")
    ELSE PingDict("failed", <<>>, "")

----------------------------------------------------------------------------
(* main(): the calls of a tick.  An output of the tick is a logger call    *)
(* (loggers[name].info / .error) or a print.                               *)

LineLen == 4 * MiB

Event(op, logger, level, kind, cat) ==
    [op |-> op, logger |-> logger, level |-> level, kind |-> kind, cat |-> cat]

\* loggers[name].info(...) / .error(...): st is [files, out]
Log(st, hs, tick, name, level, kind, cat) ==
    [files |-> callHandlers(st.files, hs[name], name,
                            Line(kind, name, tick, Len(st.out) + 1, LineLen)),
     out   |-> Append(st.out, Event("log", name, level, kind, cat))]

\* print(...)
print(st, kind, cat) ==
    [files |-> st.files,
     out   |-> Append(st.out, Event("print", "stdout", "", kind, cat))]

RECURSIVE LogAll(_, _, _, _)
LogAll(st, hs, tick, calls) ==
    IF Len(calls) = 0 THEN st
    ELSE LET c == Head(calls)
         IN  LogAll(IF c.op = "log"
                    THEN Log(st, hs, tick, c.logger, c.level, c.kind, c.cat)
                    ELSE print(st, c.kind, c.cat),
                    hs, tick, Tail(calls))

Providers == <<"cpu", "memory", "disk", "network", "ping">>

NoExc == [type |-> "none", at |-> "none"]

UnsetPing == PingDict("unset", <<>>, "")

NoSnap == [sampled |-> <<>>, cpu_top |-> <<>>, mem_top |-> <<>>,
           ping |-> UnsetPing]

\* A handler that catches the errors of psutil only
Caught_OnlyPsutil(type) == type = "psutil.Error"

\* "except Exception": the exception classes the tick's handler catches
Caught(type) ==
    type \in {"TypeError", "IndexError", "AttributeError", "psutil.Error"}

\* Lines 205-209: the five providers in order, up to the first that raises.
\* fails: the providers whose psutil call raises in this tick.
SampleAll(procs, fails, probe, N) ==
    LET cpu == IF "cpu" \in fails
               THEN [raised |-> "psutil.Error", top_processes |-> <<>>]
               ELSE get_cpu_stats(procs, N)
        mem == IF "memory" \in fails
               THEN [raised |-> "psutil.Error", top_processes |-> <<>>]
               ELSE get_memory_stats(procs, N)
        raised == [cpu     |-> cpu.raised,
                   memory  |-> mem.raised,
                   disk    |-> IF "disk" \in fails THEN "AttributeError" ELSE "none",
                   network |-> IF "network" \in fails THEN "psutil.Error" ELSE "none",
                   ping    |-> "none"]
        bad == {i \in 1 .. Len(Providers) : raised[Providers[i]] # "none"}
        last == IF bad = {} THEN Len(Providers)
                ELSE CHOOSE i \in bad : \A j \in bad : i <= j
        ok(name) == \E i \in 1 .. last : Providers[i] = name /\ i \notin bad
    IN  [snap |-> [sampled |-> SubSeq(Providers, 1, last),
                   cpu_top |-> IF ok("cpu") THEN cpu.top_processes ELSE <<>>,
                   mem_top |-> IF ok("memory") THEN mem.top_processes ELSE <<>>,
                   ping    |-> IF ok("ping") THEN ping_network(probe) ELSE UnsetPing],
         exc  |-> IF bad = {} THEN NoExc
                  ELSE [type |-> raised[Providers[last]], at |-> Providers[last]]]

\* The records of a tick with disk and memory exchanged
RecordCalls_DiskFirst ==
    <<Event("log", "cpu", "INFO", "record", "cpu"),
      Event("log", "disk", "INFO", "record", "disk"),
      Event("log", "memory", "INFO", "record", "memory"),
      Event("log", "network", "INFO", "record", "network")>>

\* Lines 213-224: one record per category, in this order
RecordCalls ==
    <<Event("log", "cpu", "INFO", "record", "cpu"),
      Event("log", "memory", "INFO", "record", "memory"),
      Event("log", "disk", "INFO", "record", "disk"),
      Event("log", "network", "INFO", "record", "network")>>

SummaryCats == <<"cpu", "memory", "disk", "network", "ping">>

\* Lines 233-245: the five summaries to the main logger, then the prints
SummaryCalls(console) ==
    [i \in 1 .. 5 |-> Event("log", "main", "INFO", "summary", SummaryCats[i])]
    \o (IF console
        THEN [i \in 1 .. 5 |-> Event("print", "stdout", "", "summary", SummaryCats[i])]
             \o <<Event("print", "stdout", "", "separator", "none")>>
        ELSE <<>>)

\* Lines 227-228: cpu['top_processes'][0] and mem['top_processes'][0]
SummaryRaises(s) == Len(s.cpu_top) = 0 \/ Len(s.mem_top) = 0

\* Lines 248-250
ErrorCalls ==
    <<Event("log", "main", "ERROR", "error", "none"),
      Event("print", "stdout", "", "error", "none")>>

\* Lines 190-198
BannerCalls ==
    [i \in 1 .. 5 |-> Event("log", "main", "INFO", "banner", "none")]
    \o [i \in 1 .. 3 |-> Event("print", "stdout", "", "banner", "none")]

----------------------------------------------------------------------------
(* Inputs of the monitor: the environment, the log directory found at      *)
(* start, and per tick the process table, the failing psutil calls and the *)
(* outcome of the ping subprocess.                                         *)

Formats == {"log", "csv", "both", "json"}

ProcessCounts == {0, 2}

P(pid, cpu, rss) == [pid |-> pid, cpu |-> cpu, rss |-> rss]

MainTables ==
    {<<>>,
     <<P(1, 5, 7)>>,
     <<P(1, 5, None)>>,
     <<P(1, 5, 7), P(2, None, 3)>>,
     <<P(1, 5, 7), P(2, 9, 3)>>}

FailSets == {{}, {"cpu"}, {"memory"}, {"disk"}, {"network"}, {"memory", "disk"}}

Probe(raises, returncode, stdout) ==
    [raises |-> raises, returncode |-> returncode, stdout |-> stdout]

MainProbes ==
    {Probe("none", 0, << <<"x", " ", "time=", "5", " ", "ms">> >>),
     Probe("none", 1, <<>>),
     Probe("TimeoutExpired", 0, <<>>)}

OldLine(name) == Line("old", name, 0, 0, LineLen)

\* A log directory: nothing there ("absent"), every file of an earlier run
\* there ("old"), or every file there and empty ("empty")
Dir(kind) ==
    [p \in Paths |->
        [g \in Gens |->
            IF g # 0 \/ kind = "absent" \/ p = <<"main", "csv">> THEN NoFile
            ELSE IF kind = "empty" THEN NewFile(0)
            ELSE [exists |-> TRUE,
                  lines |-> IF p[2] = "csv"
                            THEN <<HeaderLine(p[1]), OldLine(p[1])>>
                            ELSE <<OldLine(p[1])>>,
                  seq |-> 0]]]

NoHandlers == [n \in NameSet |-> <<>>]

Init ==
    /\ LOG_FORMAT \in Formats
    /\ CONSOLE_OUTPUT \in BOOLEAN
    /\ PROCESS_COUNT \in ProcessCounts
    /\ pc = "start"
    /\ ticks = 0
    /\ files \in {Dir("absent"), Dir("old")}
    /\ handlers = NoHandlers
    /\ snap = NoSnap
    /\ exc = NoExc
    /\ tickOut = <<>>
    /\ target = "none"
    /\ wr = 0
    /\ arg = <<>>
    /\ res = <<>>

config == <<LOG_FORMAT, CONSOLE_OUTPUT, PROCESS_COUNT>>

other == <<target, wr, arg, res>>

\* Lines 187-198: setup_logging(mode), then the banner; the loop is entered
Startup ==
    /\ pc = "start"
    /\ LET hs == [n \in NameSet |-> HandlersOf(n)]
           st == LogAll([files |-> SetupAll(files, Names), out |-> <<>>],
                        hs, 0, BannerCalls)
       IN  /\ handlers' = hs
           /\ files' = st.files
    /\ pc' = "sample"
    /\ ticks' = 1
    /\ UNCHANGED <<config, snap, exc, tickOut, other>>

\* Lines 205-209
Sample ==
    /\ pc = "sample"
    /\ \E procs \in MainTables, fails \in FailSets, probe \in MainProbes :
          LET r == SampleAll(procs, fails, probe, PROCESS_COUNT)
          IN  /\ snap' = r.snap
              /\ exc' = r.exc
              /\ pc' = IF r.exc.type = "none" THEN "log"
                       ELSE IF Caught(r.exc.type) THEN "except"
                       ELSE "crashed"
    /\ UNCHANGED <<config, ticks, files, handlers, tickOut, other>>

\* Lines 213-224
LogRecords ==
    /\ pc = "log"
    /\ LET st == LogAll([files |-> files, out |-> tickOut], handlers, ticks,
                        RecordCalls)
       IN  /\ files' = st.files
           /\ tickOut' = st.out
    /\ pc' = "summary"
    /\ UNCHANGED <<config, ticks, handlers, snap, exc, other>>

\* Lines 227-245
Summaries ==
    /\ pc = "summary"
    /\ IF SummaryRaises(snap)
       THEN /\ exc' = [type |-> "IndexError", at |-> "summary"]
            /\ pc' = IF Caught("IndexError") THEN "except" ELSE "crashed"
            /\ UNCHANGED <<files, tickOut>>
       ELSE /\ LET st == LogAll([files |-> files, out |-> tickOut], handlers,
                                ticks, SummaryCalls(CONSOLE_OUTPUT))
               IN  /\ files' = st.files
                   /\ tickOut' = st.out
            /\ pc' = "sleep"
            /\ UNCHANGED exc
    /\ UNCHANGED <<config, ticks, handlers, snap, other>>

\* Lines 247-250
Except ==
    /\ pc = "except"
    /\ LET st == LogAll([files |-> files, out |-> tickOut], handlers, ticks,
                        ErrorCalls)
       IN  /\ files' = st.files
           /\ tickOut' = st.out
    /\ pc' = "sleep"
    /\ UNCHANGED <<config, ticks, handlers, snap, exc, other>>

\* Line 252, then the next iteration of "while True"
Sleep ==
    /\ pc = "sleep"
    /\ ticks < MaxTicks
    /\ pc' = "sample"
    /\ ticks' = ticks + 1
    /\ snap' = NoSnap
    /\ exc' = NoExc
    /\ tickOut' = <<>>
    /\ UNCHANGED <<config, files, handlers, other>>

\* A termination signal from outside the program
Terminate ==
    /\ pc \in {"sample", "log", "summary", "except", "sleep"}
    /\ pc' = "terminated"
    /\ UNCHANGED <<config, ticks, files, handlers, snap, exc, tickOut, other>>

Step == Startup \/ Sample \/ LogRecords \/ Summaries \/ Except \/ Sleep

Next == Step \/ Terminate

Spec == Init /\ [][Next]_vars

\* main() has a next statement to run
Running ==
    \/ pc \in {"start", "sample", "log", "summary", "except"}
    \/ pc = "sleep" /\ ticks < MaxTicks

\* main() moves to another position of its own.  Of the steps of Next,
\* those of Step are the ones that do this: each changes pc, and never to
\* "terminated"; a step of Terminate does nothing else than that.
Advance ==
    /\ Running
    /\ pc' \in {"sample", "log", "summary", "except", "sleep", "crashed"}
    /\ pc' # pc

\* The interpreter keeps running main() until the process is signalled:
\* weak fairness of Step, stated on pc
FairSpec == Spec /\ WF_pc(Advance)

----------------------------------------------------------------------------
(* A sink run: setup_logging, then records of any of the drawn lengths     *)
(* logged to one logger, which every handler of that logger emits.         *)

SinkLens == {4 * MiB, 6 * MiB}

SinkInit ==
    /\ LOG_FORMAT \in Formats
    /\ CONSOLE_OUTPUT = TRUE
    /\ PROCESS_COUNT = 2
    /\ pc = "sink_start"
    /\ ticks = 0
    /\ files \in {Dir("absent"), Dir("empty"), Dir("old")}
    /\ handlers = NoHandlers
    /\ snap = NoSnap
    /\ exc = NoExc
    /\ tickOut = <<>>
    /\ target \in NameSet
    /\ wr = 0
    /\ arg = <<>>
    /\ res = <<>>

\* setup_logging(mode)
SinkSetup ==
    /\ pc = "sink_start"
    /\ handlers' = [n \in NameSet |-> HandlersOf(n)]
    /\ files' = SetupAll(files, Names)
    /\ pc' = "sink_ready"
    /\ UNCHANGED <<config, ticks, snap, exc, tickOut, other>>

\* loggers[target].info(record), the formatted record being len bytes long
SinkLog ==
    /\ pc = "sink_ready"
    /\ wr < MaxWrites
    /\ \E len \in SinkLens :
          files' = callHandlers(files, handlers[target], target,
                                Line("record", target, 0, wr + 1, len))
    /\ wr' = wr + 1
    /\ UNCHANGED <<config, pc, ticks, handlers, snap, exc, tickOut, target,
                   arg, res>>

SinkNext == SinkSetup \/ SinkLog

SinkSpec == SinkInit /\ [][SinkNext]_vars

----------------------------------------------------------------------------
(* A ranking run: get_cpu_stats or get_memory_stats on a drawn process     *)
(* table (what psutil.process_iter yields: an attribute the process does   *)
(* not let read is None) with a drawn PROCESS_COUNT.                       *)

MaxProcs == 3
MaxN == 3

\* The values of a metric: unreadable, or a reading
Metrics == {None, 3, 7}

Tables ==
    UNION {[1 .. n -> Metrics \X Metrics] : n \in 0 .. MaxProcs}

TableOf(t) == [i \in 1 .. Len(t) |-> P(i, t[i][1], t[i][2])]

RankInit ==
    /\ LOG_FORMAT = "both"
    /\ CONSOLE_OUTPUT = TRUE
    /\ PROCESS_COUNT \in 0 .. MaxN
    /\ pc = "rank_start"
    /\ ticks = 0
    /\ files = Dir("absent")
    /\ handlers = NoHandlers
    /\ snap = NoSnap
    /\ exc = NoExc
    /\ tickOut = <<>>
    /\ target = "none"
    /\ wr = 0
    /\ \E t \in Tables : arg = TableOf(t)
    /\ res = <<>>

\* cpu = get_cpu_stats()
RankCpu ==
    /\ pc = "rank_start"
    /\ res' = get_cpu_stats(arg, PROCESS_COUNT)
    /\ pc' = "rank_cpu"
    /\ UNCHANGED <<config, ticks, files, handlers, snap, exc, tickOut,
                   target, wr, arg>>

\* mem = get_memory_stats()
RankMemory ==
    /\ pc = "rank_start"
    /\ res' = get_memory_stats(arg, PROCESS_COUNT)
    /\ pc' = "rank_memory"
    /\ UNCHANGED <<config, ticks, files, handlers, snap, exc, tickOut,
                   target, wr, arg>>

RankNext == RankCpu \/ RankMemory

SpecRank == RankInit /\ [][RankNext]_vars

----------------------------------------------------------------------------
(* A probe run: ping_network on a drawn outcome of subprocess.run.         *)

MaxLines == 2
MaxLineLen == 3

Symbols == {"time=", " ", "5"}

OutLines == UNION {[1 .. n -> Symbols] : n \in 0 .. MaxLineLen}

Stdouts == UNION {[1 .. n -> OutLines] : n \in 0 .. MaxLines}

Probes ==
    {Probe("none", rc, out) : rc \in {0, 1}, out \in Stdouts}
    \cup {Probe(e, 0, <<>>) : e \in {"TimeoutExpired", "FileNotFoundError"}}

PingInit ==
    /\ LOG_FORMAT = "both"
    /\ CONSOLE_OUTPUT = TRUE
    /\ PROCESS_COUNT = 2
    /\ pc = "ping_start"
    /\ ticks = 0
    /\ files = Dir("absent")
    /\ handlers = NoHandlers
    /\ snap = NoSnap
    /\ exc = NoExc
    /\ tickOut = <<>>
    /\ target = "none"
    /\ wr = 0
    /\ arg \in Probes
    /\ res = <<>>

\* ping = ping_network(ping_host)
Ping ==
    /\ pc = "ping_start"
    /\ res' = ping_network(arg)
    /\ pc' = "ping_done"
    /\ UNCHANGED <<config, ticks, files, handlers, snap, exc, tickOut,
                   target, wr, arg>>

PingNext == Ping

SpecPing == PingInit /\ [][PingNext]_vars

----------------------------------------------------------------------------
(* CSVFormatter.format and the records main() logs.  A text is a sequence  *)
(* of characters: the characters the csv and json modules treat specially  *)
(* are written out, any other run of characters is one token.  A Python    *)
(* value is a number or a string (with its text), None, a list (with its   *)
(* items) or a dict (with its keys and their values, in insertion order).  *)

Comma == ","
Quote == "\""
CR == "\r"
LF == "\n"
Blank == " "
Backslash == "\\"

Whitespace == {Blank, CR, LF}

Val(t, s, keys, items) == [t |-> t, s |-> s, keys |-> keys, items |-> items]

Num(tok) == Val("num", <<tok>>, <<>>, <<>>)

Str(s) == Val("str", s, <<>>, <<>>)

PyNone == Val("none", <<>>, <<>>, <<>>)

List(items) == Val("list", <<>>, <<>>, items)

Dict(keys, items) == Val("dict", <<>>, keys, items)

\* the default of record.msg.get(field, 'N/A') and ping.get('latency_ms', 'N/A')
NA == Str(<<"N/A">>)

\* sep.join(texts)
RECURSIVE JoinWith(_, _)
JoinWith(texts, sep) ==
    IF Len(texts) = 0 THEN <<>>
    ELSE IF Len(texts) = 1 THEN texts[1]
    ELSE texts[1] \o sep \o JoinWith(Tail(texts), sep)

\* json.dumps of a string escapes the quote and the control characters
RECURSIVE JsonEscape(_)
JsonEscape(s) ==
    IF Len(s) = 0 THEN <<>>
    ELSE (CASE Head(s) = Quote -> <<Backslash, Quote>>
            [] Head(s) = LF -> <<Backslash, "n">>
            [] Head(s) = CR -> <<Backslash, "r">>
            [] OTHER -> <<Head(s)>>)
         \o JsonEscape(Tail(s))

\* json.dumps(value), with the default separators ', ' and ': '
RECURSIVE json_dumps(_)
json_dumps(v) ==
    CASE v.t = "num" -> v.s
      [] v.t = "none" -> <<"null">>
      [] v.t = "str" -> <<Quote>> \o JsonEscape(v.s) \o <<Quote>>
      [] v.t = "list" ->
            <<"[">>
            \o JoinWith([i \in 1 .. Len(v.items) |-> json_dumps(v.items[i])],
                        <<Comma, Blank>>)
            \o <<"]">>
      [] v.t = "dict" ->
            <<"{">>
            \o JoinWith([i \in 1 .. Len(v.items) |->
                            <<Quote, v.keys[i], Quote, ":", Blank>>
                            \o json_dumps(v.items[i])],
                        <<Comma, Blank>>)
            \o <<"}">>

\* csv.writer writes str(field), and None as the empty text
CellText(v) == IF v.t = "none" THEN <<>> ELSE v.s

\* doublequote=True: every quote character of a quoted field is written
\* twice (the text is taken by halves)
RECURSIVE DoubleQuotes(_)
DoubleQuotes(s) ==
    IF Len(s) = 0 THEN <<>>
    ELSE IF Len(s) = 1 THEN (IF s[1] = Quote THEN <<Quote, Quote>> ELSE s)
    ELSE LET mid == Len(s) \div 2
         IN  DoubleQuotes(SubSeq(s, 1, mid))
             \o DoubleQuotes(SubSeq(s, mid + 1, Len(s)))

\* A writer that quotes no field
NeedsQuote_Never(s) == FALSE

\* quoting=csv.QUOTE_MINIMAL: a field is quoted when it holds the
\* delimiter, the quote character or a character of the line terminator
NeedsQuote(s) == \E i \in 1 .. Len(s) : s[i] \in {Comma, Quote, CR, LF}

QuoteField(s) ==
    IF NeedsQuote(s) THEN <<Quote>> \o DoubleQuotes(s) \o <<Quote>> ELSE s

\* writer.writerow(data); output.getvalue()
writerow(data) ==
    JoinWith([i \in 1 .. Len(data) |-> QuoteField(CellText(data[i]))],
             <<Comma>>)
    \o <<CR, LF>>

RECURSIVE RStrip(_)
RStrip(s) ==
    IF Len(s) > 0 /\ s[Len(s)] \in Whitespace
    THEN RStrip(SubSeq(s, 1, Len(s) - 1))
    ELSE s

RECURSIVE LStripWs(_)
LStripWs(s) ==
    IF Len(s) > 0 /\ Head(s) \in Whitespace THEN LStripWs(Tail(s)) ELSE s

\* text.strip()
Strip(s) == LStripWs(RStrip(s))

\* datetime.fromtimestamp(record.created).strftime('%Y-%m-%d %H:%M:%S')
asctime == Str(<<"2024-01-01", Blank, "00:00:00">>)

levelname == Str(<<"INFO">>)

\* dict.get(key, default)
get(d, key, default) == IF key \in DOMAIN d THEN d[key] ELSE default

\* CSVFormatter(fields).format(record), record.msg being the dict msg (the
\* only messages main() logs to a logger that has a CSV handler)
format(fields, msg) ==
    LET data ==
            <<asctime, levelname>>
            \o [i \in 1 .. Len(fields) - 2 |->
                  LET value == get(msg, fields[i + 2], NA)
                  IN  IF value.t \in {"list", "dict"}
                      THEN Str(json_dumps(value))
                      ELSE value]
    IN  Strip(writerow(data))

\* The dict main() logs to a category's logger (lines 213-224)
RecordMsg(cat, s) ==
    CASE cat = "cpu" ->
            [cpu_percent |-> s.cpu.cpu_percent,
             cpu_count |-> s.cpu.cpu_count,
             per_cpu |-> s.cpu.per_cpu,
             top_processes |-> s.cpu.top_processes]
      [] cat = "memory" ->
            [total_gb |-> s.mem.total_gb,
             used_gb |-> s.mem.used_gb,
             available_gb |-> s.mem.available_gb,
             percent |-> s.mem.percent,
             top_processes |-> s.mem.top_processes]
      [] cat = "disk" ->
            [read_mb |-> s.disk.read_mb,
             write_mb |-> s.disk.write_mb,
             read_count |-> s.disk.read_count,
             write_count |-> s.disk.write_count,
             per_disk_io |-> s.disk.per_disk_io]
      [] cat = "network" ->
            [sent_mb |-> s.net.sent_mb,
             recv_mb |-> s.net.recv_mb,
             packets_sent |-> s.net.packets_sent,
             packets_recv |-> s.net.packets_recv,
             ping_status |-> Str(<<s.ping.status>>),
             ping_latency |-> IF "latency_ms" \in s.ping.keys
                              THEN Str(s.ping.latency_ms)
                              ELSE NA,
             ping_host |-> Str(s.ping_host)]

----------------------------------------------------------------------------
(* A formatting run: the four records of a tick, formatted for the CSV     *)
(* sinks, on drawn snapshots.                                              *)

MaxTop == 2
MaxHostLen == 2

\* The name of a process: a text, or None when it could not be read
ProcNames == {Str(<<"a", Comma, Quote>>), PyNone}

TopEntryCpu(name) ==
    Dict(<<"pid", "name", "cpu_percent">>, <<Num("101"), name, Num("5.0")>>)

TopEntryMem(name) ==
    Dict(<<"pid", "name", "rss_mb", "vms_mb", "percent">>,
         <<Num("101"), name, Num("20.5"), Num("80.25"), Num("1.3")>>)

NameLists == UNION {[1 .. n -> ProcNames] : n \in 0 .. MaxTop}

DiskEntry ==
    Dict(<<"read_mb", "write_mb", "read_count", "write_count">>,
         <<Num("1.5"), Num("2.5"), Num("30"), Num("40")>>)

PerDisk == {Dict(<<>>, <<>>), Dict(<<"sda">>, <<DiskEntry>>)}

CsvPings ==
    {PingDict("success", <<"1", Comma, "5">>, ""),
     PingDict("failed", <<>>, ""),
     PingDict("error", <<>>, "TimeoutExpired")}

\* os.getenv('PING_HOST', '8.8.8.8')
Hosts ==
    UNION {[1 .. n -> {"a", Comma, Quote, LF, Blank}] : n \in 0 .. MaxHostLen}

Snapshots ==
    {[cpu |-> [cpu_percent |-> Num("12.5"), cpu_count |-> Num("4"),
               per_cpu |-> List(<<Num("10.0"), Num("15.0")>>),
               top_processes |->
                   List([i \in 1 .. Len(names) |-> TopEntryCpu(names[i])])],
      mem |-> [total_gb |-> Num("16.0"), used_gb |-> Num("8.5"),
               available_gb |-> Num("7.5"), percent |-> Num("53.1"),
               top_processes |->
                   List([i \in 1 .. Len(names) |-> TopEntryMem(names[i])])],
      disk |-> [read_mb |-> Num("100.5"), write_mb |-> Num("200.5"),
                read_count |-> Num("300"), write_count |-> Num("400"),
                per_disk_io |-> per_disk],
      net |-> [sent_mb |-> Num("1.25"), recv_mb |-> Num("2.25"),
               packets_sent |-> Num("10"), packets_recv |-> Num("20")],
      ping |-> ping,
      ping_host |-> host] :
        names \in NameLists, per_disk \in PerDisk, ping \in CsvPings,
        host \in Hosts}

CsvInit ==
    /\ LOG_FORMAT = "csv"
    /\ CONSOLE_OUTPUT = TRUE
    /\ PROCESS_COUNT = MaxTop
    /\ pc = "csv_start"
    /\ ticks = 0
    /\ files = Dir("absent")
    /\ handlers = NoHandlers
    /\ snap = NoSnap
    /\ exc = NoExc
    /\ tickOut = <<>>
    /\ target = "none"
    /\ wr = 0
    /\ arg \in Snapshots
    /\ res = <<>>

\* Lines 213-224, each record formatted by its logger's CSV handler
CsvRecords ==
    /\ pc = "csv_start"
    /\ res' = [c \in Categories |->
                  format(log_fields[c], RecordMsg(c, arg))]
    /\ pc' = "csv_done"
    /\ UNCHANGED <<config, ticks, files, handlers, snap, exc, tickOut,
                   target, wr, arg>>

CsvNext == CsvRecords

SpecCsv == CsvInit /\ [][CsvNext]_vars

----------------------------------------------------------------------------
(* Properties of the sinks *)

\* The sinks that have a handler
Active(p) == Contains(handlers[p[1]], p[2])

Backups == Gens \ {0}

\* C4: for every CSV sink the first line of the active file is the
\* category's header row, at startup and after every rotation
C4_HeaderFirst ==
    \A p \in Paths :
        (p[2] = "csv" /\ Active(p) /\ Len(files[p][0].lines) > 0)
            => files[p][0].lines[1].kind = "header"

\* C5: a sink never has more than backupCount rotated generations; the
\* generations kept are the newest ones, in order of age, so that after
\* backupCount + 2 rotations exactly backupCount of them and the active
\* file exist
C5_BacklogBound ==
    \A p \in Paths :
        /\ Cardinality({g \in Backups : files[p][g].exists}) <= backupCount
        /\ \A g \in Backups :
              /\ files[p][g].exists <=>
                    (Active(p) /\ g <= backupCount /\ g <= files[p][0].seq)
              /\ files[p][g].exists =>
                    (files[p][0].exists /\ files[p][g].seq = files[p][0].seq - g)

C5_Witness ==
    \E p \in Paths :
        /\ files[p][0].seq = backupCount + 2
        /\ \A g \in 1 .. backupCount : files[p][g].exists
        /\ ~files[p][backupCount + 1].exists

Last(s) == s[Len(s)]

\* What one write of a line did to a sink: rolled over and put the line
\* first in the fresh file, or appended it to the active file
Rolled(f, g, line) ==
    /\ g[0].seq = f[0].seq + 1
    /\ g[0].lines = <<line>>
    /\ g[1] = f[0]

Appended(f, g, line) ==
    /\ g[0].seq = f[0].seq
    /\ g[0].lines = Append(f[0].lines, line)
    /\ \A i \in Backups : g[i] = f[i]

\* C6 as stated: a write rotates exactly when the size after the write
\* would exceed maxBytes
C6_RotateIffExceeds ==
    [][\A p \in Paths :
          (wr' = wr + 1 /\ p[1] = target /\ Active(p)) =>
              LET line == Last(files'[p][0].lines)
              IN  IF getsize(files[p][0]) + line.len > maxBytes
                  THEN Rolled(files[p], files'[p], line)
                  ELSE Appended(files[p], files'[p], line)]_vars

\* C6 amended: a write rotates exactly when the size after the write would
\* reach or exceed maxBytes; it rotates once, and the line is the first of
\* the fresh file
C6_RotateIffReaches ==
    [][\A p \in Paths :
          (wr' = wr + 1 /\ p[1] = target /\ Active(p)) =>
              LET line == Last(files'[p][0].lines)
              IN  IF getsize(files[p][0]) + line.len >= maxBytes
                  THEN Rolled(files[p], files'[p], line)
                  ELSE Appended(files[p], files'[p], line)]_vars

\* A rollover that happened at a size of exactly maxBytes, and a file that
\* took a second line without one
C6_Witness ==
    \E p \in Paths, q \in Paths :
        /\ files[p][0].seq >= 1
        /\ files[p][1].exists
        /\ getsize(files[p][1]) + files[p][0].lines[1].len = maxBytes
        /\ Len(files[q][0].lines) >= 2
        /\ files[q][0].lines[1].kind = "record"

----------------------------------------------------------------------------
(* Properties of the loop of main() *)

Range(s) == {s[i] : i \in 1 .. Len(s)}

\* The positions in the running tick's outputs of the outputs that match
Outputs(op, logger, kind, cat) ==
    {i \in 1 .. Len(tickOut) :
        /\ tickOut[i].op = op
        /\ tickOut[i].logger = logger
        /\ tickOut[i].kind = kind
        /\ tickOut[i].cat = cat}

\* Some output of the running tick is about the category
HasOutput(cat) == \E i \in 1 .. Len(tickOut) : tickOut[i].cat = cat

\* C1: in a tick in which the memory provider raised, CPU, disk, network
\* and reachability are still sampled and their output is produced, and
\* one error entry goes to the main logger
C1_MemoryFailureIsolated ==
    (pc = "sleep" /\ exc.at = "memory") =>
        /\ {"cpu", "disk", "network", "ping"} \subseteq Range(snap.sampled)
        /\ \A c \in {"cpu", "disk", "network", "ping"} : HasOutput(c)
        /\ Cardinality(Outputs("log", "main", "error", "none")) = 1

\* The lines of a sink, over all its generations
LinesOf(p) == UNION {Range(files[p][g].lines) : g \in Gens}

\* C2: whatever a tick raises, main() is never ended by it: the tick
\* reaches the sleep, and the sleep is followed by the next tick; only a
\* signal from outside ends the loop
C2_LoopNeverStops ==
    /\ [](pc # "crashed")
    /\ [][pc' = "terminated" => pc = "terminated" \/ <<Terminate>>_vars]_vars
    /\ [](pc \in {"sample", "log", "summary", "except"}
             => <>(pc \in {"sleep", "terminated"}))
    /\ []((pc = "sleep" /\ ticks < MaxTicks)
             => <>(pc \in {"sample", "terminated"}))

\* A tick that raised was followed by the sleep and by another tick
C2_Witness ==
    /\ ticks = 2
    /\ pc = "sample"
    /\ \E l \in LinesOf(<<"main", "log">>) : l.kind = "error" /\ l.tick = 1

\* C8: LOG_FORMAT selects the sinks (main never has a CSV sink), and a
\* record logged to a logger is in every sink of that logger and in no
\* other sink
C8_FormatSelectsSinks ==
    pc # "start" =>
        /\ \A n \in NameSet :
              /\ Active(<<n, "log">>) <=> LOG_FORMAT \in {"log", "both"}
              /\ Active(<<n, "csv">>) <=>
                    (LOG_FORMAT \in {"csv", "both"} /\ n # "main")
        /\ \A i \in 1 .. Len(tickOut) : \A p \in Paths :
              tickOut[i].op = "log" =>
                  ((Active(p) /\ p[1] = tickOut[i].logger) <=>
                      \E l \in LinesOf(p) :
                          /\ l.tick = ticks /\ l.k = i
                          /\ l.kind = tickOut[i].kind
                          /\ l.logger = tickOut[i].logger)
        /\ \A p \in Paths : \A l \in LinesOf(p) : l.logger = p[1]

C8_Witness ==
    /\ LOG_FORMAT = "both"
    /\ pc = "summary"
    /\ \E l \in LinesOf(<<"cpu", "log">>) : l.tick = ticks /\ l.kind = "record"
    /\ \E l \in LinesOf(<<"cpu", "csv">>) : l.tick = ticks /\ l.kind = "record"
    /\ \A l \in LinesOf(<<"main", "log">>) : l.kind # "record"

\* C10: a tick whose five providers returned emits one summary line per
\* category to the main logger and, with console output enabled, one
\* summary line per category and then the separator on the console,
\* whatever PROCESS_COUNT and the process table are
C10_SummariesEveryTick ==
    (pc = "sleep" /\ exc.at \notin Range(Providers)) =>
        /\ \A c \in Range(SummaryCats) :
              Cardinality(Outputs("log", "main", "summary", c)) = 1
        /\ CONSOLE_OUTPUT =>
              /\ \A c \in Range(SummaryCats) :
                    Cardinality(Outputs("print", "stdout", "summary", c)) = 1
              /\ Len(tickOut) > 0
              /\ Last(tickOut).kind = "separator"

----------------------------------------------------------------------------
(* Properties of the ranking *)

Unreadable(fn, pid) ==
    \E i \in 1 .. Len(arg) :
        /\ arg[i].pid = pid
        /\ (IF fn = "rank_cpu" THEN arg[i].cpu ELSE arg[i].rss) = None

\* C3: for every process table and every N >= 0, the top_processes list
\* of the CPU snapshot and of the memory snapshot has at most
\* min(number of processes, N) entries, is ordered non-increasing by the
\* metric, holds no process whose metric could not be read, and the
\* ranking does not fail.
C3_TopNRanking ==
    pc \in {"rank_cpu", "rank_memory"} =>
        LET top == res.top_processes
        IN  /\ res.raised = "none"
            /\ Len(top) <= Min(Len(arg), PROCESS_COUNT)
            /\ \A i \in 1 .. Len(top) : ~Unreadable(pc, top[i].pid)
            /\ \A i \in 1 .. Len(top) - 1 :
                  (top[i].value # None /\ top[i + 1].value # None)
                      => top[i].value >= top[i + 1].value

----------------------------------------------------------------------------
(* Properties of the probe *)

\* The first line of stdout that contains "time=" has a token after it
Parseable(stdout) ==
    /\ Len(FirstTimeLine(stdout)) > 0
    /\ Len(FirstToken(AfterTime(FirstTimeLine(stdout)[1]))) > 0

\* C7: the probe maps every outcome to one status: exit code 0 with a
\* parseable "time=" latency gives success with the latency, exit code 0
\* without one or a non-zero exit code gives failed with no latency, and an
\* exception of the subprocess gives error with the error detail.
C7_PingTotal ==
    pc = "ping_done" =>
        IF arg.raises # "none"
        THEN /\ res.status = "error"
             /\ "error" \in res.keys
             /\ res.error = arg.raises
        ELSE IF arg.returncode = 0 /\ Parseable(arg.stdout)
        THEN /\ res.status = "success"
             /\ "latency_ms" \in res.keys
             /\ Len(res.latency_ms) > 0
        ELSE /\ res.status = "failed"
             /\ "latency_ms" \notin res.keys

----------------------------------------------------------------------------
(* Properties of the CSV rows.  A row is read back the way a CSV reader    *)
(* reads it: cells end at a comma outside quotes, rows at a line break     *)
(* outside quotes, and a doubled quote inside quotes is one quote.         *)

\* The reader's state after one more character: the finished rows, the
\* finished cells of the running row, the running cell, and where in a
\* cell the reader is
CsvStep(st, c) ==
    IF st.mode = "quoted"
    THEN IF c = Quote THEN [st EXCEPT !.mode = "closing"]
         ELSE [st EXCEPT !.cell = Append(@, c)]
    ELSE IF c = Quote /\ st.mode \in {"start", "after_cr"}
    THEN [st EXCEPT !.mode = "quoted"]
    ELSE IF c = Quote /\ st.mode = "closing"
    THEN [st EXCEPT !.cell = Append(@, c), !.mode = "quoted"]
    ELSE IF c = Comma
    THEN [st EXCEPT !.row = Append(@, st.cell), !.cell = <<>>,
                    !.mode = "start"]
    ELSE IF c = LF /\ st.mode = "after_cr" /\ Len(st.row) = 0
    THEN [st EXCEPT !.mode = "start"]
    ELSE IF c \in {CR, LF}
    THEN [rows |-> Append(st.rows, Append(st.row, st.cell)),
          row |-> <<>>, cell |-> <<>>,
          mode |-> IF c = CR THEN "after_cr" ELSE "start"]
    ELSE [st EXCEPT !.cell = Append(@, c), !.mode = "unquoted"]

\* The reader's state after a text (taken by halves, the state after the
\* first half being computed before the second half is read)
RECURSIVE CsvRun(_, _)
CsvRun(st, text) ==
    IF Len(text) = 0 THEN st
    ELSE IF Len(text) = 1 THEN CsvStep(st, text[1])
    ELSE LET mid == Len(text) \div 2
             left == CsvRun(st, SubSeq(text, 1, mid))
         IN  CASE left.mode \in {"start", "after_cr", "quoted", "closing",
                                 "unquoted"} ->
                     CsvRun(left, SubSeq(text, mid + 1, Len(text)))

\* The rows of a text, each the sequence of its cells
Cells(text) ==
    LET st == CsvRun([rows |-> <<>>, row |-> <<>>, cell |-> <<>>,
                      mode |-> "start"], text)
    IN  IF st.mode \in {"start", "after_cr"} /\ Len(st.row) = 0
        THEN st.rows
        ELSE Append(st.rows, Append(st.row, st.cell))

\* What the cell of a field shows of the sampled snapshots
Expected(cat, field) ==
    LET from == CASE cat = "cpu" -> arg.cpu
                  [] cat = "memory" -> arg.mem
                  [] cat = "disk" -> arg.disk
                  [] cat = "network" -> arg.net
    IN  CASE field = "timestamp" -> asctime.s
          [] field = "level" -> levelname.s
          [] field = "ping_status" -> <<arg.ping.status>>
          [] field = "ping_latency" ->
                IF arg.ping.status = "success" THEN arg.ping.latency_ms
                ELSE <<"N/A">>
          [] field = "ping_host" -> arg.ping_host
          [] OTHER ->
                IF from[field].t \in {"list", "dict"}
                THEN json_dumps(from[field])
                ELSE from[field].s

\* C9: every CSV row of a category reads back as one row that has as many
\* cells as the category's schema, in the schema's order: the timestamp,
\* the level, then each field's value, a list or mapping being the one
\* cell that holds its JSON text and a latency the probe did not give
\* being the cell N/A (the row is stripped, so its last cell is compared
\* without surrounding blanks).
C9_CsvRowShape ==
    pc = "csv_done" =>
        \A cat \in Categories :
            LET fields == log_fields[cat]
                rows == Cells(res[cat])
            IN  /\ Len(rows) = 1
                /\ Len(rows[1]) = Len(fields)
                /\ \A j \in 1 .. Len(fields) - 1 :
                      rows[1][j] = Expected(cat, fields[j])
                /\ Strip(rows[1][Len(fields)])
                       = Strip(Expected(cat, fields[Len(fields)]))

C9_Witness ==
    /\ pc = "csv_done"
    /\ arg.ping.status = "failed"
    /\ Cells(res["network"])[1][8] = <<"N/A">>
    /\ Len(arg.cpu.top_processes.items) = 2
    /\ Len(Cells(res["cpu"])[1]) = 6
    /\ Cells(res["cpu"])[1][6] = json_dumps(arg.cpu.top_processes)
    /\ Contains(arg.ping_host, Comma)

----------------------------------------------------------------------------
(* Properties of the end of the process *)

\* C11: a termination signal leads to a shutdown in which every sink's
\* handle is flushed and closed before the process stops: the process is
\* never stopped with a sink's handler still holding its file open.
C11_ShutdownClosesSinks ==
    pc = "terminated" => \A p \in Paths : ~Active(p)

----------------------------------------------------------------------------
(* A run of main() from its first statement: the priming calls, then       *)
(* setup_logging, whose first statement creates the log directory, then    *)
(* the loop.  arg is what the run finds (whether LOG_DIR can be created);  *)
(* res is the exit status of the process (None while it has not exited)    *)
(* and the CPU baselines that a call made so far has set.                  *)

\* psutil keeps one baseline for cpu_percent(interval=None) of the
\* aggregate percentage, one of the per-core percentages, and one in each
\* process.  Lines 184-185: psutil.cpu_percent(interval=None, percpu=True)
\* sets the per-core baseline; psutil.disk_io_counters() sets none
Primes == {"per_core"}

\* Lines 127-133: get_cpu_stats reads cpu_percent(interval=None), the
\* cpu_percent of every process of process_iter, and
\* cpu_percent(interval=None, percpu=True)
CpuReads == {"aggregate", "per_process", "per_core"}

makedirs_Ignored(outcome) == "none"

\* os.makedirs(LOG_DIR, exist_ok=True): the exception it raises, "none"
\* when the directory exists or was created
makedirs(outcome) == IF outcome = "ok" THEN "none" ELSE outcome

MakedirsOutcomes == {"ok", "PermissionError", "OSError"}

BootInit ==
    /\ LOG_FORMAT \in Formats
    /\ CONSOLE_OUTPUT \in BOOLEAN
    /\ PROCESS_COUNT \in ProcessCounts
    /\ pc = "boot"
    /\ ticks = 0
    /\ \E o \in MakedirsOutcomes :
          /\ arg = [makedirs |-> o]
          /\ files \in (IF o = "ok" THEN {Dir("absent"), Dir("old")}
                        ELSE {Dir("absent")})
    /\ handlers = NoHandlers
    /\ snap = NoSnap
    /\ exc = NoExc
    /\ tickOut = <<>>
    /\ target = "none"
    /\ wr = 0
    /\ res = [status |-> None, primed |-> {}]

\* Lines 184-185
Prime ==
    /\ pc = "boot"
    /\ res' = [res EXCEPT !.primed = @ \cup Primes]
    /\ pc' = "setup"
    /\ UNCHANGED <<config, ticks, files, handlers, snap, exc, tickOut,
                   target, wr, arg>>

\* Lines 187-198: setup_logging(mode) and the banner; an exception of
\* os.makedirs (line 28) is caught nowhere and ends the process with the
\* interpreter's exit status for an uncaught exception, 1
BootSetup ==
    /\ pc = "setup"
    /\ IF makedirs(arg.makedirs) = "none"
       THEN /\ LET hs == [n \in NameSet |-> HandlersOf(n)]
                   st == LogAll([files |-> SetupAll(files, Names),
                                 out |-> <<>>], hs, 0, BannerCalls)
               IN  /\ handlers' = hs
                   /\ files' = st.files
            /\ pc' = "sample"
            /\ ticks' = 1
            /\ UNCHANGED res
       ELSE /\ pc' = "exited"
            /\ res' = [res EXCEPT !.status = 1]
            /\ UNCHANGED <<handlers, files, ticks>>
    /\ UNCHANGED <<config, snap, exc, tickOut, target, wr, arg>>

BootNext ==
    \/ Prime
    \/ BootSetup
    \/ Sample
    \/ LogRecords
    \/ Summaries
    \/ Except
    \/ Sleep
    \/ Terminate

BootSpec == BootInit /\ [][BootNext]_vars

----------------------------------------------------------------------------
(* Properties of the start of the process *)

\* C12: when the log directory cannot be created the process exits at
\* once with a non-zero status, having created no sink and run no tick;
\* the process never exits with status 0 otherwise than by a graceful
\* shutdown (and main() has no statement that exits with status 0).
C12_FatalStartup ==
    /\ (arg.makedirs # "ok" /\ pc \notin {"boot", "setup"}) =>
          /\ pc = "exited"
          /\ res.status # None
          /\ res.status # 0
          /\ handlers = NoHandlers
          /\ files = Dir("absent")
          /\ ticks = 0
          /\ tickOut = <<>>
    /\ pc = "exited" => arg.makedirs # "ok"
    /\ res.status # 0

C12_Witness ==
    /\ arg.makedirs = "PermissionError"
    /\ pc = "exited"
    /\ res.status = 1

\* C13: before the first tick every CPU baseline that a tick's CPU sample
\* reads (aggregate, per core, per process) has been set by a throwaway
\* sample.
C13_CpuBaselinesPrimed ==
    pc = "sample" => CpuReads \subseteq res.primed

----------------------------------------------------------------------------
(* Properties of opening a sink *)

\* The header rows among the lines of a file
Headers(file) == {i \in 1 .. Len(file.lines) : file.lines[i].kind = "header"}

\* C14: opening a sink on a file that exists and is not empty leaves the
\* file as it is (no second header row), and a header is written at open
\* time only into a CSV file that did not exist or was empty; a record
\* written afterwards is appended after the existing content, which a
\* rotation keeps whole in the first backup.
C14_OpenIdempotent ==
    /\ [][\A p \in Paths :
             (pc = "sink_start" /\ pc' = "sink_ready"
                 /\ Contains(handlers'[p[1]], p[2])) =>
                 IF files[p][0].exists /\ getsize(files[p][0]) > 0
                 THEN files'[p] = files[p]
                 ELSE /\ files'[p][0].exists
                      /\ files'[p][0].lines =
                            (IF p[2] = "csv" THEN <<HeaderLine(p[1])>>
                             ELSE <<>>)
                      /\ \A g \in Backups : files'[p][g] = files[p][g]]_vars
    /\ [][\A p \in Paths :
             (wr' = wr + 1 /\ p[1] = target /\ Active(p)) =>
                 LET line == Last(files'[p][0].lines)
                 IN  /\ line.kind = "record"
                     /\ \/ Appended(files[p], files'[p], line)
                        \/ Rolled(files[p], files'[p], line)]_vars
    /\ [](\A p \in Paths : \A g \in Gens :
             /\ Cardinality(Headers(files[p][g])) <= 1
             /\ Headers(files[p][g]) \subseteq {1})

\* A CSV file of an earlier run, with its header and its record, after
\* the sink was opened on it and took a record
C14_Witness ==
    \E n \in Categories :
        /\ pc = "sink_ready"
        /\ Active(<<n, "csv">>)
        /\ Len(files[<<n, "csv">>][0].lines) = 3
        /\ files[<<n, "csv">>][0].lines[1].kind = "header"
        /\ files[<<n, "csv">>][0].lines[2].kind = "old"
        /\ files[<<n, "csv">>][0].lines[3].kind = "record"

----------------------------------------------------------------------------
(* setup_logging statement by statement.  target is the logger of the      *)
(* running iteration of "for name in log_fields", arg the log directory    *)
(* found at the start, and res tells for every path who holds an open      *)
(* file object on it: the path's RotatingFileHandler ("handler"), the      *)
(* with-block that writes the header ("header").                           *)

NoHolders == [p \in Paths |-> {}]

\* The logger of the next iteration, "none" after the last
NextName(name) ==
    IF \E i \in 1 .. Len(Names) - 1 : Names[i] = name
    THEN Names[(CHOOSE i \in 1 .. Len(Names) - 1 : Names[i] = name) + 1]
    ELSE "none"

OpenInit ==
    /\ LOG_FORMAT \in Formats
    /\ CONSOLE_OUTPUT \in BOOLEAN
    /\ PROCESS_COUNT = 2
    /\ pc = "open_flat"
    /\ ticks = 0
    /\ files \in {Dir("absent"), Dir("empty"), Dir("old")}
    /\ handlers = NoHandlers
    /\ snap = NoSnap
    /\ exc = NoExc
    /\ tickOut = <<>>
    /\ target = Names[1]
    /\ wr = 0
    /\ arg = files
    /\ res = NoHolders

\* Lines 78-90: the flat handler is created (which opens its file), given
\* its formatter and added
OpenFlat ==
    /\ pc = "open_flat"
    /\ LET p == <<target, "log">>
       IN  IF should_log
           THEN /\ files' = [files EXCEPT ![p] = OpenAppend(@)]
                /\ res' = [res EXCEPT ![p] = @ \cup {"handler"}]
                /\ handlers' = [handlers EXCEPT ![target] = Append(@, "log")]
           ELSE UNCHANGED <<files, res, handlers>>
    /\ pc' = "open_csv"
    /\ UNCHANGED <<config, ticks, snap, exc, tickOut, target, wr, arg>>

\* After the iteration of a logger: the next logger, or lines 115-120
AfterName == IF NextName(target) = "none" THEN "console" ELSE "open_flat"

\* Lines 94-103: the CSV handler is created (which opens its file), and
\* the file is tested for being new or empty
OpenCsv ==
    /\ pc = "open_csv"
    /\ LET p == <<target, "csv">>
       IN  IF should_csv /\ target # "main"
           THEN /\ files' = [files EXCEPT ![p] = OpenAppend(@)]
                /\ res' = [res EXCEPT ![p] = @ \cup {"handler"}]
                /\ pc' = IF NeedsHeader(OpenAppend(files[p])[0])
                         THEN "header" ELSE "add_csv"
                /\ UNCHANGED target
           ELSE /\ UNCHANGED <<files, res>>
                /\ pc' = AfterName
                /\ target' = IF NextName(target) = "none" THEN target
                             ELSE NextName(target)
    /\ UNCHANGED <<config, ticks, handlers, snap, exc, tickOut, wr, arg>>

\* Line 105: open(csv_filename, 'w') truncates the file
HeaderOpen ==
    /\ pc = "header"
    /\ LET p == <<target, "csv">>
       IN  /\ files' = [files EXCEPT ![p][0].lines = <<>>]
           /\ res' = [res EXCEPT ![p] = @ \cup {"header"}]
    /\ pc' = "header_write"
    /\ UNCHANGED <<config, ticks, handlers, snap, exc, tickOut, target, wr,
                   arg>>

\* Line 106 and the end of the with-block: the header is written and the
\* file object closed
HeaderWrite ==
    /\ pc = "header_write"
    /\ LET p == <<target, "csv">>
       IN  /\ files' = [files EXCEPT ![p] = WriteHeader(@, target)]
           /\ res' = [res EXCEPT ![p] = @ \ {"header"}]
    /\ pc' = "add_csv"
    /\ UNCHANGED <<config, ticks, handlers, snap, exc, tickOut, target, wr,
                   arg>>

\* Lines 108-112
AddCsv ==
    /\ pc = "add_csv"
    /\ handlers' = [handlers EXCEPT ![target] = Append(@, "csv")]
    /\ pc' = AfterName
    /\ target' = IF NextName(target) = "none" THEN target
                 ELSE NextName(target)
    /\ UNCHANGED <<config, ticks, files, snap, exc, tickOut, wr, arg, res>>

\* Lines 115-122
AddConsole ==
    /\ pc = "console"
    /\ handlers' = IF CONSOLE_OUTPUT
                   THEN [handlers EXCEPT !["main"] = Append(@, "console")]
                   ELSE handlers
    /\ pc' = "open_done"
    /\ UNCHANGED <<config, ticks, files, snap, exc, tickOut, target, wr, arg,
                   res>>

OpenNext ==
    \/ OpenFlat
    \/ OpenCsv
    \/ HeaderOpen
    \/ HeaderWrite
    \/ AddCsv
    \/ AddConsole

OpenSpec == OpenInit /\ [][OpenNext]_vars

----------------------------------------------------------------------------
(* Properties of the handles *)

\* setup_logging, statement by statement, does what SetupAll and
\* HandlersOf say
OpenAgrees ==
    pc = "open_done" =>
        /\ files = SetupAll(arg, Names)
        /\ handlers = [n \in NameSet |-> HandlersOf(n)]

\* C15: every sink has exactly one open handle on its path, its own, and
\* at no point, sink initialisation and header writing included, is a
\* sink's file open through a second handle.
C15_ExclusiveHandles ==
    \A p \in Paths :
        /\ res[p] \subseteq {"handler"}
        /\ Active(p) => res[p] = {"handler"}

----------------------------------------------------------------------------
(* A sink run in which writes fail: setup_logging, then records logged to  *)
(* one logger while the rollover or the write of some of its file handlers *)
(* raises OSError (permission denied, disk full).  res keeps the writes    *)
(* that were lost, as pairs of the sink's path and the record's number,    *)
(* and the number of tracebacks printed to stderr.                         *)

MaxFailWrites == 3

\* Handler.emit catches every Exception of the rollover and of the write
\* and calls handleError, which prints a traceback to stderr and returns:
\* what a logger call raises to its caller when a handler failed
emit_raises(error) == "none"

FailInit ==
    /\ LOG_FORMAT \in Formats
    /\ CONSOLE_OUTPUT = TRUE
    /\ PROCESS_COUNT = 2
    /\ pc = "fail_start"
    /\ ticks = 0
    /\ files \in {Dir("absent"), Dir("old")}
    /\ handlers = NoHandlers
    /\ snap = NoSnap
    /\ exc = NoExc
    /\ tickOut = <<>>
    /\ target \in NameSet
    /\ wr = 0
    /\ arg = <<>>
    /\ res = [lost |-> {}, stderr |-> 0]

\* setup_logging(mode)
FailSetup ==
    /\ pc = "fail_start"
    /\ handlers' = [n \in NameSet |-> HandlersOf(n)]
    /\ files' = SetupAll(files, Names)
    /\ pc' = "fail_ready"
    /\ UNCHANGED <<config, ticks, snap, exc, tickOut, other>>

\* loggers[target].info(record) while the file handlers in broken fail:
\* a failing handler writes nothing, the other handlers emit the record
FailLog ==
    /\ pc = "fail_ready"
    /\ wr < MaxFailWrites
    /\ \E broken \in SUBSET {h \in Range(handlers[target]) : h # "console"} :
          LET ok(h) == h \notin broken
              raised == IF broken = {} THEN "none" ELSE emit_raises("OSError")
          IN  /\ files' = callHandlers(files, SelectSeq(handlers[target], ok),
                                       target,
                                       Line("record", target, 0, wr + 1,
                                            LineLen))
              /\ res' = [lost |-> res.lost
                                  \cup {<<<<target, h>>, wr + 1>> : h \in broken},
                         stderr |-> res.stderr + Cardinality(broken)]
              /\ exc' = IF raised = "none" THEN exc
                        ELSE [type |-> raised, at |-> "sink"]
              /\ pc' = IF raised = "none" \/ Caught(raised) THEN "fail_ready"
                       ELSE "crashed"
    /\ wr' = wr + 1
    /\ UNCHANGED <<config, ticks, handlers, snap, tickOut, target, arg>>

FailNext == FailSetup \/ FailLog

FailSpec == FailInit /\ [][FailNext]_vars

----------------------------------------------------------------------------
(* Properties of a failing sink *)

\* C16: a write or rotation failure of a sink is reported to the loop of
\* main() as a recoverable error and logged to the main channel; the
\* process does not crash and the lost line is not written later.
C16_SinkFailureReported ==
    /\ pc # "crashed"
    /\ \A w \in res.lost : \A l \in LinesOf(w[1]) : l.k # w[2]
    /\ res.lost # {} =>
          /\ exc.type # "none"
          /\ \E p \in Paths : \E l \in LinesOf(p) :
                p[1] = "main" /\ l.kind = "error"

----------------------------------------------------------------------------
(* Properties of reading the CSV rows back *)

\* C17: for every snapshot of every category, reading the encoded row
\* back with the category's schema gives one row in which every scalar
\* field has the text that was encoded and every compound field is one
\* cell that holds the JSON text of the original value.
C17_CsvRoundTrip ==
    pc = "csv_done" =>
        \A cat \in Categories :
            LET fields == log_fields[cat]
                rows == Cells(res[cat])
            IN  /\ Len(rows) = 1
                /\ Len(rows[1]) = Len(fields)
                /\ \A j \in 1 .. Len(fields) :
                      rows[1][j] = Expected(cat, fields[j])

----------------------------------------------------------------------------
(* Properties of ties in the ranking.  The process table is enumerated in  *)
(* the order of its pids.                                                  *)

Metric(fn, p) == IF fn = "rank_cpu" THEN p.cpu ELSE p.rss

\* C18: among processes of equal metric value the ranked list keeps the
\* order of the process table, and so does the truncation to N: a process
\* left out of the list is never one that the table enumerates before a
\* listed process of the same value; for the CPU and the memory ranking.
C18_StableRanking ==
    (pc \in {"rank_cpu", "rank_memory"} /\ res.raised = "none") =>
        LET top == res.top_processes
            listed == {top[i].pid : i \in 1 .. Len(top)}
        IN  /\ \A i \in 1 .. Len(top) : \A j \in 1 .. Len(top) :
                  (i < j /\ top[i].value = top[j].value)
                      => top[i].pid < top[j].pid
            /\ \A i \in 1 .. Len(top) : \A q \in 1 .. Len(arg) :
                  (arg[q].pid \notin listed
                      /\ Metric(pc, arg[q]) = top[i].value)
                      => top[i].pid < arg[q].pid

\* Two processes of equal CPU percentage ranked with N = 1: the first of
\* the table is the one listed
C18_Witness ==
    /\ pc = "rank_cpu"
    /\ PROCESS_COUNT = 1
    /\ Len(arg) = 2
    /\ arg[1].cpu = 7
    /\ arg[2].cpu = 7
    /\ Len(res.top_processes) = 1
    /\ res.top_processes[1].pid = 1

----------------------------------------------------------------------------
(* Properties of a tick whose probe does not answer *)

\* C19: a probe that hangs is cut off by its timeout and gives status
\* error, an unreachable host gives failed; the tick of such a probe
\* still writes its network record and reaches the sleep (unless the
\* process is signalled first).
C19_TickTerminates ==
    /\ [](snap.ping.error = "TimeoutExpired" => snap.ping.status = "error")
    /\ []((pc \in {"summary", "except", "sleep"}
              /\ "ping" \in Range(snap.sampled)) =>
             /\ snap.ping.status \in {"success", "failed", "error"}
             /\ Cardinality(Outputs("log", "network", "record", "network")) = 1)
    /\ []((pc = "log" /\ snap.ping.status \in {"error", "failed"})
             => <>(pc \in {"sleep", "terminated"}))

\* A tick whose probe timed out, at the sleep, its network record written
C19_Witness ==
    /\ pc = "sleep"
    /\ snap.ping.error = "TimeoutExpired"
    /\ snap.ping.status = "error"
    /\ Outputs("log", "network", "record", "network") # {}

----------------------------------------------------------------------------
(* Properties of the records of a tick *)

\* The positions of the category records among the running tick's outputs
RecordsAt == {i \in 1 .. Len(tickOut) : tickOut[i].kind = "record"}

\* The lines that a sink got in the running tick
TickLines(p) == {l \in LinesOf(p) : l.tick = ticks /\ l.kind = "record"}

\* C20: in a tick all five providers are sampled before any category
\* record is written: if a provider raised, no category's sink gets a
\* record in that tick; if none raised, the cpu, memory, disk and network
\* loggers are each given one record, in this order and before any
\* summary, and every sink of theirs gets exactly that one record.
C20_RecordsAllOrNothing ==
    /\ (pc \in {"sample", "log"} \/ exc.at \in Range(Providers)) =>
          /\ RecordsAt = {}
          /\ \A p \in Paths : TickLines(p) = {}
    /\ (pc \in {"summary", "except", "sleep"}
           /\ exc.at \notin Range(Providers)) =>
          /\ Range(snap.sampled) = Range(Providers)
          /\ RecordsAt = 1 .. 4
          /\ <<tickOut[1].logger, tickOut[2].logger, tickOut[3].logger,
               tickOut[4].logger>> = <<"cpu", "memory", "disk", "network">>
          /\ \A i \in 1 .. Len(tickOut) :
                tickOut[i].kind = "summary" => i > 4
          /\ \A p \in Paths :
                Cardinality(TickLines(p)) =
                    (IF Active(p) /\ p[1] \in Categories THEN 1 ELSE 0)

\* A tick in which a provider raised, and a tick in which none did
C20_Witness ==
    /\ pc = "sleep"
    /\ ticks = 2
    /\ exc.at = "disk"
    /\ RecordsAt = {}
    /\ Active(<<"cpu", "csv">>)
    /\ \E l \in LinesOf(<<"cpu", "csv">>) : l.tick = 1 /\ l.kind = "record"
    /\ \E l \in LinesOf(<<"main", "log">>) : l.tick = 1 /\ l.kind = "summary"

----------------------------------------------------------------------------
(* The legacy single-format program (monitor - Copy.py).  Every logger has *)
(* one rotating .log sink; the loop samples and logs one category after    *)
(* the other inside one try block, with a try block of its own around the  *)
(* disk category.  arg is unused; res is the sequence of the providers     *)
(* that raised in the running tick.                                        *)

\* setup_logging: a RotatingFileHandler on every logger, and the console
\* handler on the main logger if CONSOLE_OUTPUT is 'true'
LegacyHandlersOf(name) ==
    <<"log">> \o (IF name = "main" /\ CONSOLE_OUTPUT THEN <<"console">> ELSE <<>>)

\* setup_logging: the five handlers open their files in append mode
LegacySetupFiles(fs) ==
    [p \in Paths |-> IF p[2] = "log" THEN OpenAppend(fs[p]) ELSE fs[p]]

\* The log directory of the legacy program holds .log files only
LegacyDir(kind) ==
    [p \in Paths |-> IF p[2] = "log" THEN Dir(kind)[p] ELSE [g \in Gens |-> NoFile]]

\* The four info entries and the five prints before the loop
LegacyBannerCalls ==
    [i \in 1 .. 4 |-> Event("log", "main", "INFO", "banner", "none")]
    \o [i \in 1 .. 5 |-> Event("print", "stdout", "", "banner", "none")]

\* ping_network of the legacy file (ping -W 2, timeout=3)
legacy_ping_network(probe) ==
    IF probe.raises # "none"
    THEN PingDict("error", <<>>, probe.raises)
    ELSE IF probe.returncode = 0 /\ Len(FirstTimeLine(probe.stdout)) > 0
    THEN LET time_ms == FirstToken(AfterTime(FirstTimeLine(probe.stdout)[1]))
         IN  IF Len(time_ms) = 0
             THEN PingDict("error", <<>>, "IndexError")
             ELSE PingDict("success", time_ms, "")
    ELSE PingDict("failed", <<>>, "")

\* What a psutil call of a provider may raise: psutil's own errors, and
\* AttributeError where the counters call returned None
LegacyRaises(cat) ==
    IF cat \in {"disk", "network"}
    THEN {"psutil.Error", "AttributeError"}
    ELSE {"psutil.Error"}

\* The message of a category to its logger and to the main logger, and its
\* print if CONSOLE_OUTPUT is 'true'
LegacyCalls(logger, level, kind, cat) ==
    <<Event("log", logger, level, kind, cat),
      Event("log", "main", level, kind, cat)>>
    \o (IF CONSOLE_OUTPUT
        THEN <<Event("print", "stdout", "", kind, cat)>>
        ELSE <<>>)

\* The disk category's handler with the entry of the disk logger left out
LegacyDiskErrorCalls_MainOnly ==
    <<Event("log", "main", "ERROR", "disk_error", "disk")>>

\* Lines 203-206: "except Exception as e" of the disk category
LegacyDiskErrorCalls ==
    <<Event("log", "disk", "ERROR", "disk_error", "disk"),
      Event("log", "main", "ERROR", "disk_error", "disk")>>

\* Lines 234-237: "except Exception as e" of the loop
LegacyErrorCalls ==
    <<Event("log", "main", "ERROR", "error", "none"),
      Event("print", "stdout", "", "error", "none")>>

LegacyInit ==
    /\ LOG_FORMAT = "log"
    /\ CONSOLE_OUTPUT \in BOOLEAN
    /\ PROCESS_COUNT = 0
    /\ pc = "legacy_start"
    /\ ticks = 0
    /\ files \in {LegacyDir("absent"), LegacyDir("old")}
    /\ handlers = NoHandlers
    /\ snap = NoSnap
    /\ exc = NoExc
    /\ tickOut = <<>>
    /\ target = "none"
    /\ wr = 0
    /\ arg = <<>>
    /\ res = <<>>

\* Lines 162-173: setup_logging(mode), then the banner; the loop is entered
LegacyStartup ==
    /\ pc = "legacy_start"
    /\ LET hs == [n \in NameSet |-> LegacyHandlersOf(n)]
           st == LogAll([files |-> LegacySetupFiles(files), out |-> <<>>],
                        hs, 0, LegacyBannerCalls)
       IN  /\ handlers' = hs
           /\ files' = st.files
    /\ pc' = "legacy_cpu"
    /\ ticks' = 1
    /\ UNCHANGED <<config, snap, exc, tickOut, target, wr, arg, res>>

\* A category of the loop's try block that has no handler of its own: the
\* provider is called and its message logged, or its exception leaves the
\* try block
LegacyCategory(at, cat, next) ==
    /\ pc = at
    /\ \E raised \in {"none"} \cup LegacyRaises(cat) :
          IF raised = "none"
          THEN LET st == LogAll([files |-> files, out |-> tickOut], handlers,
                                ticks, LegacyCalls(cat, "INFO", "stats", cat))
               IN  /\ snap' = [snap EXCEPT !.sampled = Append(@, cat)]
                   /\ files' = st.files
                   /\ tickOut' = st.out
                   /\ pc' = next
                   /\ UNCHANGED <<exc, res>>
          ELSE /\ exc' = [type |-> raised, at |-> cat]
               /\ res' = Append(res, cat)
               /\ pc' = IF Caught(raised) THEN "legacy_except" ELSE "crashed"
               /\ UNCHANGED <<snap, files, tickOut>>
    /\ UNCHANGED <<config, ticks, handlers, target, wr, arg>>

\* Lines 180-185
LegacyCpu == LegacyCategory("legacy_cpu", "cpu", "legacy_memory")

\* Lines 188-193
LegacyMemory == LegacyCategory("legacy_memory", "memory", "legacy_disk")

\* Lines 196-206: the disk category in its own try block
LegacyDisk ==
    /\ pc = "legacy_disk"
    /\ \E raised \in {"none"} \cup LegacyRaises("disk") :
          IF raised = "none"
          THEN LET st == LogAll([files |-> files, out |-> tickOut], handlers,
                                ticks, LegacyCalls("disk", "INFO", "stats", "disk"))
               IN  /\ snap' = [snap EXCEPT !.sampled = Append(@, "disk")]
                   /\ files' = st.files
                   /\ tickOut' = st.out
                   /\ pc' = "legacy_network"
                   /\ UNCHANGED <<exc, res>>
          ELSE IF Caught(raised)
          THEN LET st == LogAll([files |-> files, out |-> tickOut], handlers,
                                ticks, LegacyDiskErrorCalls)
               IN  /\ files' = st.files
                   /\ tickOut' = st.out
                   /\ res' = Append(res, "disk")
                   /\ pc' = "legacy_network"
                   /\ UNCHANGED <<snap, exc>>
          ELSE /\ exc' = [type |-> raised, at |-> "disk"]
               /\ res' = Append(res, "disk")
               /\ pc' = "crashed"
               /\ UNCHANGED <<snap, files, tickOut>>
    /\ UNCHANGED <<config, ticks, handlers, target, wr, arg>>

\* Lines 209-214
LegacyNetwork == LegacyCategory("legacy_network", "network", "legacy_ping")

\* Lines 217-232: the probe, its info or warning entry, and the separator
LegacyPing ==
    /\ pc = "legacy_ping"
    /\ \E probe \in MainProbes :
          LET ping == legacy_ping_network(probe)
              level == IF ping.status = "success" THEN "INFO" ELSE "WARNING"
              st == LogAll([files |-> files, out |-> tickOut], handlers, ticks,
                           LegacyCalls("network", level, "ping", "ping")
                           \o (IF CONSOLE_OUTPUT
                               THEN <<Event("print", "stdout", "", "separator", "none")>>
                               ELSE <<>>))
          IN  /\ snap' = [snap EXCEPT !.sampled = Append(@, "ping"),
                                      !.ping = ping]
              /\ files' = st.files
              /\ tickOut' = st.out
    /\ pc' = "legacy_sleep"
    /\ UNCHANGED <<config, ticks, handlers, exc, target, wr, arg, res>>

\* Lines 234-237
LegacyExcept ==
    /\ pc = "legacy_except"
    /\ LET st == LogAll([files |-> files, out |-> tickOut], handlers, ticks,
                        LegacyErrorCalls)
       IN  /\ files' = st.files
           /\ tickOut' = st.out
    /\ pc' = "legacy_sleep"
    /\ UNCHANGED <<config, ticks, handlers, snap, exc, target, wr, arg, res>>

\* Line 239, then the next iteration of "while True"
LegacySleep ==
    /\ pc = "legacy_sleep"
    /\ ticks < MaxTicks
    /\ pc' = "legacy_cpu"
    /\ ticks' = ticks + 1
    /\ snap' = NoSnap
    /\ exc' = NoExc
    /\ tickOut' = <<>>
    /\ res' = <<>>
    /\ UNCHANGED <<config, files, handlers, target, wr, arg>>

LegacyNext ==
    \/ LegacyStartup
    \/ LegacyCpu
    \/ LegacyMemory
    \/ LegacyDisk
    \/ LegacyNetwork
    \/ LegacyPing
    \/ LegacyExcept
    \/ LegacySleep

LegacySpec == LegacyInit /\ [][LegacyNext]_vars

----------------------------------------------------------------------------
(* Properties of a tick of the legacy program *)

\* The logger of a category: the probe's entries go to the network logger
Channel(cat) == IF cat = "ping" THEN "network" ELSE cat

\* The output at position i of the running tick is a logger call whose line
\* is in the logger's sink
Written(i) ==
    /\ tickOut[i].op = "log"
    /\ \E l \in LinesOf(<<tickOut[i].logger, "log">>) :
          l.tick = ticks /\ l.k = i /\ l.kind = tickOut[i].kind

\* The positions of the entries of a level and kind given to a logger
EntriesAt(logger, level, kind) ==
    {i \in 1 .. Len(tickOut) :
        /\ tickOut[i].op = "log"
        /\ tickOut[i].logger = logger
        /\ tickOut[i].level = level
        /\ tickOut[i].kind = kind}

\* The category was sampled in the running tick, and its message is in the
\* sink of its own logger and in the sink of the main logger
Logged(cat) ==
    /\ cat \in Range(snap.sampled)
    /\ \E i, j \in 1 .. Len(tickOut) :
          /\ tickOut[i].logger = Channel(cat) /\ tickOut[i].cat = cat
          /\ tickOut[j].logger = "main" /\ tickOut[j].cat = cat
          /\ tickOut[i].level \in {"INFO", "WARNING"}
          /\ tickOut[j].level = tickOut[i].level
          /\ Written(i) /\ Written(j)

\* The position of a provider in the order of the loop
Position(cat) == CHOOSE i \in 1 .. Len(Providers) : Providers[i] = cat

\* C21: in the legacy program an exception of the disk provider is caught
\* by the disk category's own handler: one error entry goes to the disk
\* sink and one to the main sink, no exception of the disk provider reaches
\* the handler of the loop, and the tick goes on with the network
\* statistics and the probe, which are sampled and logged in that tick
\* unless the network provider raises itself.  An exception of the cpu,
\* memory or network provider (the probe never raises) ends the tick: no
\* category from the failing one on is sampled or has any output, the
\* categories before it are logged (disk possibly as its error entry), and
\* the main sink gets exactly one error entry of the loop.
C21_LegacyDiskCaughtLocally ==
    /\ exc.at \in {"none", "cpu", "memory", "network"}
    /\ pc # "crashed"
    /\ "disk" \in Range(res) =>
          /\ pc \in {"legacy_network", "legacy_ping", "legacy_except", "legacy_sleep"}
          /\ "disk" \notin Range(snap.sampled)
          /\ Cardinality(EntriesAt("disk", "ERROR", "disk_error")) = 1
          /\ Cardinality(EntriesAt("main", "ERROR", "disk_error")) = 1
          /\ \A i \in EntriesAt("disk", "ERROR", "disk_error")
                     \cup EntriesAt("main", "ERROR", "disk_error") : Written(i)
          /\ \A i \in EntriesAt("main", "ERROR", "disk_error"),
                j \in 1 .. Len(tickOut) :
                   tickOut[j].cat \in {"network", "ping"} => i < j
          /\ (pc \in {"legacy_ping", "legacy_sleep"} /\ exc.at = "none")
                => Logged("network")
          /\ (pc = "legacy_sleep" /\ exc.at = "none") => Logged("ping")
    /\ "disk" \notin Range(res) =>
          /\ EntriesAt("disk", "ERROR", "disk_error") = {}
          /\ EntriesAt("main", "ERROR", "disk_error") = {}
    /\ (pc \in {"legacy_except", "legacy_sleep"} /\ exc.at # "none") =>
          /\ \A cat \in Range(Providers) :
                IF Position(cat) >= Position(exc.at)
                THEN /\ cat \notin Range(snap.sampled)
                     /\ \A i \in 1 .. Len(tickOut) : tickOut[i].cat # cat
                ELSE Logged(cat) \/ (cat = "disk" /\ "disk" \in Range(res))
          /\ pc = "legacy_sleep" =>
                /\ Cardinality(EntriesAt("main", "ERROR", "error")) = 1
                /\ \A i \in EntriesAt("main", "ERROR", "error") :
                      Written(i) /\ i >= Len(tickOut) - 1
                /\ \A n \in Categories : EntriesAt(n, "ERROR", "error") = {}
    /\ (pc = "legacy_sleep" /\ exc.at = "none") =>
          /\ EntriesAt("main", "ERROR", "error") = {}
          /\ \A cat \in Range(Providers) :
                Logged(cat) \/ (cat = "disk" /\ "disk" \in Range(res))

\* A tick in which the memory provider raised, followed by a tick in which
\* the disk provider raised and the network statistics and the probe were
\* logged all the same
C21_Witness ==
    /\ pc = "legacy_sleep"
    /\ ticks = 2
    /\ res = <<"disk">>
    /\ exc = NoExc
    /\ snap.sampled = <<"cpu", "memory", "network", "ping">>
    /\ EntriesAt("disk", "ERROR", "disk_error") # {}
    /\ Logged("network") /\ Logged("ping")
    /\ \E l \in LinesOf(<<"main", "log">>) : l.tick = 1 /\ l.kind = "error"
    /\ \A l \in LinesOf(<<"disk", "log">>) : l.tick # 1
    /\ \E l \in LinesOf(<<"cpu", "log">>) : l.tick = 1

====
